---- MODULE Spec2Model ----
(***************************************************************************)
(* virtual-mic: a model of src/src/main.rs.                                *)
(*                                                                         *)
(* The model has three parts:                                              *)
(*   - the decoder pipeline (AudioDecoder::open / decode_more /            *)
(*     fill_buffer) as operators over a decoder record and a file;         *)
(*   - the virtual device provisioner (VirtualDevice::new and its Drop)    *)
(*     against a daemon that records the pactl commands it receives;       *)
(*   - main: the startup sequence, the realtime process callback, the      *)
(*     Ctrl+C handler and the polling timer of the main loop.              *)
(*                                                                         *)
(* Samples are f32 in the program.  Here they are integers (fixed point);  *)
(* the files of the model are chosen so that every division of the         *)
(* downmix, the volume scaling and the interpolation is exact.             *)
(***************************************************************************)
EXTENDS Integers, Sequences, FiniteSets, TLC

\* ------------------------------------------------------------------ bounds
\* Largest buffer size (in samples) the daemon hands to the process callback.
MaxN == 3
\* Number of process callbacks that reach fill_buffer in one run.
MaxFills == 3
\* Largest number of frames in a decoded block handed to decode_more alone.
MaxBlock == 3

\* ------------------------------------------------------- program constants
SAMPLE_RATE == 48000
CHANNELS == 1
\* std::mem::size_of::<f32>()
SizeOfF32 == 4
\* The volume is a multiple of 1/VolumeDen (fixed point for the f32 volume).
VolumeDen == 2
\* args.volume.clamp(0.0, 2.0): the upper limit, in units of 1/VolumeDen.
VolumeMax == 2 * VolumeDen

\* Absent Option<u32> (module ids and sample rates are positive).
None == 0

\* ------------------------------------------------------------------- files
\* A file is what the decode capability makes of it: the sample rate and the
\* channel count of the selected track and the packets next_packet yields.
\*   kind "audio"   : a packet of the selected track that decodes to `samples`
\*                    (interleaved);
\*   kind "other"   : a packet of another track;
\*   kind "corrupt" : a packet of the selected track whose decode fails;
\*   kind "ioerr"   : next_packet fails here with an error that is not
\*                    UnexpectedEof.
\* After the last packet next_packet reports UnexpectedEof.
Audio(s) == [kind |-> "audio", samples |-> s]
Other == [kind |-> "other", samples |-> <<>>]
Corrupt == [kind |-> "corrupt", samples |-> <<>>]
IoErr == [kind |-> "ioerr", samples |-> <<>>]

Mono48k == [rate |-> 48000, channels |-> 1,
            packets |-> <<Audio(<<4, 8>>), Audio(<<12>>)>>]
Stereo24k == [rate |-> 24000, channels |-> 2,
              packets |-> <<Audio(<<4, 8, 12, 20>>)>>]
Noisy == [rate |-> 48000, channels |-> 1,
          packets |-> <<Other, Corrupt, Audio(<<4>>), Audio(<<>>), Audio(<<8>>)>>]
Broken == [rate |-> 48000, channels |-> 1,
           packets |-> <<Audio(<<4>>), IoErr>>]
Mono24k == [rate |-> 24000, channels |-> 1,
            packets |-> <<Audio(<<4, 8>>), Audio(<<12>>)>>]
Silent == [rate |-> 48000, channels |-> 1,
           packets |-> <<Other, Corrupt>>]

Files == {Mono48k, Stereo24k, Mono24k, Noisy, Broken, Silent}

\* ------------------------------------------------------ sequence helpers
RECURSIVE Repeat(_, _)
Repeat(x, n) == IF n <= 0 THEN <<>> ELSE <<x>> \o Repeat(x, n - 1)

Take(s, n) == SubSeq(s, 1, IF n < Len(s) THEN n ELSE Len(s))
DropFirst_one_more(s, n) == SubSeq(s, n + 2, Len(s))

DropFirst(s, n) == SubSeq(s, n + 1, Len(s))
Min(a, b) == IF a < b THEN a ELSE b

RECURSIVE SumSeq(_)
SumSeq(s) == IF s = <<>> THEN 0 ELSE Head(s) + SumSeq(Tail(s))

\* ------------------------------------------------------- decoder pipeline
\* AudioDecoder (main.rs 51-60).  `pos` is the position of the FormatReader
\* in the file's packets; `opened` says that format, decoder and track_id are
\* Some; source_sample_rate is None (0) until open.
NewDecoder(loop_audio, volume) ==
    [loop_audio |-> loop_audio, volume |-> volume, buffer |-> <<>>,
     opened |-> FALSE, pos |-> 1, source_sample_rate |-> None]

\* AudioDecoder::open: a fresh reader at the first packet, the track's rate
\* captured again.
open_without_store(dec, file) ==
    [dec EXCEPT !.source_sample_rate = file.rate]

open(dec, file) ==
    [dec EXCEPT !.opened = TRUE, !.pos = 1, !.source_sample_rate = file.rate]

\* f32 NaN: what `--volume nan` parses to (main.rs 44), and the value of any
\* arithmetic that has it as an operand.
NaN == 0 - 999

\* The mono sample of the frame that starts at index i (0-based) of an
\* interleaved block: the channel samples that exist, summed, divided by the
\* channel count, times the volume (main.rs 146-151).
MonoAt(samples, i, source_channels, volume) ==
    LET last == Min(i + source_channels, Len(samples))
        sum == SumSeq(SubSeq(samples, i + 1, last))
    IN IF volume = NaN THEN NaN
       ELSE ((sum * volume) \div source_channels) \div VolumeDen

\* for i in (0..samples.len()).step_by(source_channels): one mono sample per
\* frame, in frame order (main.rs 144-152).
RECURSIVE DownmixFrom(_, _, _, _)
DownmixFrom(samples, i, source_channels, volume) ==
    IF i >= Len(samples) THEN <<>>
    ELSE <<MonoAt(samples, i, source_channels, volume)>>
         \o DownmixFrom(samples, i + source_channels, source_channels, volume)

Downmix(samples, source_channels, volume) ==
    DownmixFrom(samples, 0, source_channels, volume)

ResampleAt_unclamped(old_samples, i, source_rate) ==
    LET idx0 == (i * source_rate) \div SAMPLE_RATE
        fracNum == (i * source_rate) % SAMPLE_RATE
        idx1 == idx0 + 1
        s1 == IF idx1 + 1 \in 1..Len(old_samples) THEN old_samples[idx1 + 1] ELSE 0
    IN IF idx0 < Len(old_samples)
       THEN IF old_samples[idx0 + 1] = NaN \/ s1 = NaN THEN NaN
            ELSE (old_samples[idx0 + 1] * (SAMPLE_RATE - fracNum) + s1 * fracNum)
                     \div SAMPLE_RATE
       ELSE 0

\* Output sample i of the linear resampling (main.rs 162-172):
\*   src_idx = i / ratio, ratio = SAMPLE_RATE / source_rate
\*   idx0 = floor(src_idx), idx1 = min(idx0 + 1, len - 1), frac = src_idx - idx0
ResampleAt(old_samples, i, source_rate) ==
    LET idx0 == (i * source_rate) \div SAMPLE_RATE
        fracNum == (i * source_rate) % SAMPLE_RATE
        idx1 == Min(idx0 + 1, Len(old_samples) - 1)
        s1 == IF idx1 + 1 \in 1..Len(old_samples) THEN old_samples[idx1 + 1] ELSE 0
    IN IF idx0 < Len(old_samples)
       THEN IF old_samples[idx0 + 1] = NaN \/ s1 = NaN THEN NaN
            ELSE (old_samples[idx0 + 1] * (SAMPLE_RATE - fracNum) + s1 * fracNum)
                     \div SAMPLE_RATE
       ELSE 0

\* The whole buffer is drained and replaced by floor(old_len * ratio)
\* interpolated samples (main.rs 155-175).
Resample(buffer, source_rate) ==
    LET new_len == (Len(buffer) * SAMPLE_RATE) \div source_rate
    IN [i \in 1..new_len |-> ResampleAt(buffer, i - 1, source_rate)]

\* What one decoded block makes of the buffer (main.rs 133-177).
AppendBlock(dec, samples, source_channels) ==
    LET source_rate == IF dec.source_sample_rate = None THEN SAMPLE_RATE
                       ELSE dec.source_sample_rate
        pushed == dec.buffer \o Downmix(samples, source_channels, dec.volume)
    IN IF source_rate # SAMPLE_RATE THEN Resample(pushed, source_rate) ELSE pushed

\* next_packet reported UnexpectedEof (main.rs 185-195): with looping the file
\* is opened again and the call reports "more data", else "no more data".
EndOfFile_never_loops(dec, file, reopen_ok) ==
    [res |-> "eos", reopened |-> FALSE, cause |-> "none", dec |-> dec]

EndOfFile(dec, file, reopen_ok) ==
    IF dec.loop_audio
    THEN IF reopen_ok
         THEN [res |-> "more", reopened |-> TRUE, cause |-> "none",
               dec |-> open(dec, file)]
         ELSE [res |-> "err", reopened |-> FALSE, cause |-> "reopen", dec |-> dec]
    ELSE [res |-> "eos", reopened |-> FALSE, cause |-> "none", dec |-> dec]

RECURSIVE decode_more_corrupt_is_fatal(_, _, _)
decode_more_corrupt_is_fatal(dec, file, reopen_ok) ==
    IF ~dec.opened
    THEN [res |-> "err", reopened |-> FALSE, cause |-> "not_opened", dec |-> dec]
    ELSE IF dec.pos > Len(file.packets)
    THEN EndOfFile(dec, file, reopen_ok)
    ELSE LET packet == file.packets[dec.pos]
             next == [dec EXCEPT !.pos = dec.pos + 1]
         IN CASE packet.kind \in {"ioerr", "corrupt"} ->
                    [res |-> "err", reopened |-> FALSE, cause |-> "reader",
                     dec |-> dec]
              [] packet.kind = "other" ->
                    decode_more_corrupt_is_fatal(next, file, reopen_ok)
              [] OTHER ->
                    [res |-> "more", reopened |-> FALSE, cause |-> "none",
                     dec |-> [next EXCEPT !.buffer =
                                AppendBlock(dec, packet.samples, file.channels)]]

\* AudioDecoder::decode_more (main.rs 119-202).  The result:
\*   res "more"  Ok(true), "eos" Ok(false), "err" Err(_);
\*   reopened    the call re-opened the file (the loop restart);
\*   cause       of an Err: "not_opened" (main.rs 120-122), "reader" (a
\*               next_packet error, main.rs 196-199) or "reopen" (the open
\*               of a loop restart, main.rs 191);
\*   dec         the decoder after the call.
\* reopen_ok is the outcome of the self.open() of a loop restart.
RECURSIVE decode_more(_, _, _)
decode_more(dec, file, reopen_ok) ==
    IF ~dec.opened
    THEN [res |-> "err", reopened |-> FALSE, cause |-> "not_opened", dec |-> dec]
    ELSE IF dec.pos > Len(file.packets)
    THEN EndOfFile(dec, file, reopen_ok)
    ELSE LET packet == file.packets[dec.pos]
             next == [dec EXCEPT !.pos = dec.pos + 1]
         IN CASE packet.kind = "ioerr" ->
                    [res |-> "err", reopened |-> FALSE, cause |-> "reader",
                     dec |-> dec]
              [] packet.kind \in {"other", "corrupt"} ->
                    decode_more(next, file, reopen_ok)
              [] OTHER ->
                    [res |-> "more", reopened |-> FALSE, cause |-> "none",
                     dec |-> [next EXCEPT !.buffer =
                                AppendBlock(dec, packet.samples, file.channels)]]

\* End of audio: `for sample in &mut output[filled..] { *sample = 0.0 }`
\* (main.rs 211-213): the slots written so far stay, the rest become zero.
Silence_skipped(out, n) == out

Silence_from_start(out, n) == Repeat(0, n)

Silence(out, n) == out \o Repeat(0, n - Len(out))

\* `if self.buffer.is_empty()` (main.rs 208): decode only into an empty
\* buffer.
NeedsDecode_below_two(dec) == Len(dec.buffer) < 2

NeedsDecode(dec) == dec.buffer = <<>>

\* AudioDecoder::fill_buffer (main.rs 204-225) on an output slice of n slots.
\* `out` holds the slots written so far, in order (filled = Len(out)); slots
\* beyond Len(out) were not written.  `idle` says that the file was re-opened
\* and nothing has been appended since: a second restart in that state
\* repeats the first one forever, and the call never returns ("hang").
\* The result:
\*   res      "ok" Ok(ret), "err" Err(_), "hang" the call does not return;
\*   out      the slots written; pad: how many of them the silence branch
\*            wrote; eos: decode_more reported "no more data";
\*   decoded  the samples decode_more put into the buffer during the call;
\*   cause    of an Err, as decode_more reports it;
\*   clean    every decode_more of the call found the buffer empty;
\*   dec      the decoder after the call.
RECURSIVE FillLoop(_, _, _, _, _, _, _, _)
FillLoop(dec, file, n, reopen_ok, out, decoded, idle, clean) ==
    IF Len(out) >= n
    THEN [res |-> "ok", ret |-> Len(out), out |-> out, pad |-> 0, eos |-> FALSE,
          decoded |-> decoded, cause |-> "none", clean |-> clean, dec |-> dec]
    ELSE IF NeedsDecode(dec)
    THEN LET r == decode_more(dec, file, reopen_ok)
             c == clean /\ dec.buffer = <<>>
         IN CASE r.res = "err" ->
                    [res |-> "err", ret |-> 0, out |-> out, pad |-> 0,
                     eos |-> FALSE, decoded |-> decoded, cause |-> r.cause,
                     clean |-> c, dec |-> r.dec]
              [] r.res = "eos" ->
                    [res |-> "ok", ret |-> n,
                     out |-> Silence(out, n),
                     pad |-> n - Len(out), eos |-> TRUE,
                     decoded |-> decoded, cause |-> "none", clean |-> c,
                     dec |-> r.dec]
              [] OTHER ->
                    IF r.reopened /\ idle
                    THEN [res |-> "hang", ret |-> 0, out |-> out, pad |-> 0,
                          eos |-> FALSE, decoded |-> decoded, cause |-> "none",
                          clean |-> c, dec |-> r.dec]
                    ELSE LET k == Min(n - Len(out), Len(r.dec.buffer))
                         IN FillLoop(
                              [r.dec EXCEPT !.buffer = DropFirst(r.dec.buffer, k)],
                              file, n, reopen_ok,
                              out \o Take(r.dec.buffer, k),
                              decoded \o r.dec.buffer,
                              IF r.reopened THEN TRUE
                              ELSE idle /\ r.dec.buffer = <<>>,
                              c)
    ELSE LET k == Min(n - Len(out), Len(dec.buffer))
         IN FillLoop([dec EXCEPT !.buffer = DropFirst(dec.buffer, k)],
                     file, n, reopen_ok, out \o Take(dec.buffer, k), decoded,
                     idle, clean)

fill_buffer(dec, file, n, reopen_ok) ==
    FillLoop(dec, file, n, reopen_ok, <<>>, <<>>, FALSE, TRUE)

\* ------------------------------------------------ virtual device provisioner
\* The daemon as the control utility (pactl) shows it: the modules loaded,
\* the id the next module gets, and every command the program ran, in order,
\* with its outcome.
\*   load outcomes:   "ok"          exit status 0, stdout is the module id
\*                    "ok_noparse"  exit status 0, stdout is not a number
\*                    "exit_fail"   exit status not 0, nothing loaded
\*                    "spawn_fail"  Command::output() itself fails
\*   unload outcomes: "ok", "exit_fail" (the module stays loaded)
LoadOutcomes == {"ok", "ok_noparse", "exit_fail", "spawn_fail"}
UnloadOutcomes == {"ok", "exit_fail"}
NoLoad == "not_run"

NewDaemon == [loaded |-> {}, next |-> 1, log |-> <<>>]

\* pactl load-module <kind>
RunLoad(dm, kind, o) ==
    LET entry == [op |-> "load", kind |-> kind, id |-> None, outcome |-> o]
    IN IF o \in {"ok", "ok_noparse"}
       THEN [loaded |-> dm.loaded \cup {dm.next}, next |-> dm.next + 1,
             log |-> Append(dm.log, [entry EXCEPT !.id = dm.next])]
       ELSE [dm EXCEPT !.log = Append(dm.log, entry)]

\* pactl unload-module <id>
RunUnload(dm, id, o) ==
    [dm EXCEPT !.loaded = IF o = "ok" THEN dm.loaded \ {id} ELSE dm.loaded,
               !.log = Append(dm.log, [op |-> "unload", kind |-> "module",
                                       id |-> id, outcome |-> o])]

\* The id a successful load printed: the module just loaded.
PrintedId(dm) == dm.next - 1

\* struct VirtualDevice (main.rs 228-234); the names are derived strings and
\* are left out.
NoDevice == [module_id |-> None, remap_module_id |-> None,
             loopback_module_id |-> None, exists |-> FALSE]

\* Step 2 failed on its exit status: unload the sink, return the error
\* (main.rs 286-295).
RemapFailed(dm, module_id, ou) ==
    [ok |-> FALSE, dev |-> NoDevice, dm |-> RunUnload(dm, module_id, ou)]

\* Step 3 (main.rs 305-334): the loopback id, or None.
LoopbackId(dm3, o3) == IF o3 = "ok" THEN PrintedId(dm3) ELSE None

\* Step 1 failed (main.rs 254-266): the error is returned at once, nothing
\* else is run.  dm1 is the daemon after the sink command.
SinkFailed_with_rollback(dm1) ==
    [ok |-> FALSE, dev |-> NoDevice, dm |-> RunUnload(dm1, PrintedId(dm1), "ok")]

SinkFailed(dm1) == [ok |-> FALSE, dev |-> NoDevice, dm |-> dm1]

\* A device that keeps the sink id and forgets the remap source id.
NewDevice_without_remap(module_id, remap_module_id, loopback_module_id) ==
    [module_id |-> module_id, remap_module_id |-> None,
     loopback_module_id |-> loopback_module_id, exists |-> TRUE]

\* Ok(Self { .. }) (main.rs 338-344).
NewDevice(module_id, remap_module_id, loopback_module_id) ==
    [module_id |-> module_id, remap_module_id |-> remap_module_id,
     loopback_module_id |-> loopback_module_id, exists |-> TRUE]

\* VirtualDevice::new (main.rs 237-345).  o1, o2, o3 are the outcomes of the
\* three load commands and ou the outcome of the rollback unload; a command
\* the call does not reach is not run.  Result: ok, the device (when ok) and
\* the daemon afterwards.
VirtualDevice_new(dm, monitor, o1, o2, o3, ou) ==
    LET dm1 == RunLoad(dm, "sink", o1)
        module_id == PrintedId(dm1)
        dm2 == RunLoad(dm1, "remap", o2)
        remap_module_id == PrintedId(dm2)
        dm3 == RunLoad(dm2, "loopback", o3)
    IN CASE o1 # "ok" -> SinkFailed(dm1)
         [] o1 = "ok" /\ o2 = "exit_fail" -> RemapFailed(dm2, module_id, ou)
         [] o1 = "ok" /\ o2 \in {"spawn_fail", "ok_noparse"} ->
                [ok |-> FALSE, dev |-> NoDevice, dm |-> dm2]
         [] o1 = "ok" /\ o2 = "ok" /\ ~monitor ->
                [ok |-> TRUE, dm |-> dm2,
                 dev |-> NewDevice(module_id, remap_module_id, None)]
         [] o1 = "ok" /\ o2 = "ok" /\ monitor /\ o3 = "spawn_fail" ->
                [ok |-> FALSE, dev |-> NoDevice, dm |-> dm3]
         [] OTHER ->
                [ok |-> TRUE, dm |-> dm3,
                 dev |-> NewDevice(module_id, remap_module_id, LoopbackId(dm3, o3))]

\* Which commands VirtualDevice::new runs for the given outcomes.
Reaches2(o1) == o1 = "ok"
Reaches3(monitor, o1, o2) == o1 = "ok" /\ o2 = "ok" /\ monitor
ReachesRollback(o1, o2) == o1 = "ok" /\ o2 = "exit_fail"

\* One unload of Drop: skipped when the id is absent (main.rs 355, 361, 367).
DropUnload(dm, id, o) ==
    IF id # None THEN RunUnload(dm, id, o) ELSE dm

\* Drop with the unloads in load order: sink, remap source, loopback.
drop_in_load_order(dev, dm, u) ==
    LET a == DropUnload(dm, dev.module_id, u[3])
        b == DropUnload(a, dev.remap_module_id, u[2])
    IN DropUnload(b, dev.loopback_module_id, u[1])

\* impl Drop for VirtualDevice (main.rs 352-374): loopback, remap source,
\* sink; every result is discarded.  u = <<uL, uR, uS>> are the outcomes.
drop(dev, dm, u) ==
    LET a == DropUnload(dm, dev.loopback_module_id, u[1])
        b == DropUnload(a, dev.remap_module_id, u[2])
    IN DropUnload(b, dev.module_id, u[3])

\* -------------------------------------------------------------------- main
\* Args (main.rs 29-49) as the runs of the model draw them; the volume is in
\* units of 1/VolumeDen and may lie outside [0, 2].
ArgVolumes == {2, 6}

\* args.volume.clamp(0.0, 2.0) (main.rs 403)
ClampVolume(v) ==
    IF v = NaN THEN NaN
    ELSE IF v < 0 THEN 0 ELSE IF v > VolumeMax THEN VolumeMax ELSE v

\* The fallible steps of main between VirtualDevice::new and the handler
\* registration, in program order, each a `?` (main.rs 396-520).
StartupSteps == <<"mainloop_new", "context_new", "core_connect", "decoder_open",
                  "format_serialize", "pod_from_bytes", "stream_new",
                  "listener_register", "stream_connect">>

\* No process callback has reached fill_buffer yet.
NoFill == [res |-> "none", n |-> 0, ret |-> 0, out |-> <<>>, pad |-> 0,
           eos |-> FALSE, decoded |-> <<>>, before |-> <<>>,
           chunk_size |-> None, published |-> FALSE, eos_before |-> FALSE,
           cancelled |-> FALSE, cause |-> "none", clean |-> TRUE]

NotExited == [code |-> 0, reason |-> "running", dropped |-> 0]

VARIABLES
    args,       \* the command line: file_exists, loop_audio, volume, monitor
    file,       \* the audio file at args.file
    pc,         \* where main is
    step,       \* index into StartupSteps while pc = "startup"
    daemon,     \* the daemon behind pactl
    prov,       \* outcomes of the commands of VirtualDevice::new
    device,     \* virtual_device: the VirtualDevice main owns, or NoDevice
    decoder,    \* the AudioDecoder behind the Rc<RefCell<..>>
    handler,    \* the Ctrl+C handler: "none", "installed", "failed"
    running,    \* the AtomicBool `running`
    quit,       \* ml.quit() was called and mainloop.run() has yet to return
    rt,         \* the realtime thread: "idle", or "hung" inside fill_buffer
    fills,      \* process callbacks that reached fill_buffer
    last,       \* the last such callback: its input, result and chunk
    eosSeen,    \* decode_more has reported "no more data"
    delivered,  \* every buffered sample fill_buffer has output, in order
    decodedAll, \* every sample decode_more has put into the buffer, in order
    exit        \* how the process ended: code, reason, runs of Drop

vars == <<args, file, pc, step, daemon, prov, device, decoder, handler, running,
          quit, rt, fills, last, eosSeen, delivered, decodedAll, exit>>

Init ==
    /\ args \in [file_exists : BOOLEAN, loop_audio : BOOLEAN,
                 volume : ArgVolumes, monitor : BOOLEAN]
    /\ file \in Files
    /\ pc = "check_file"
    /\ step = 1
    /\ daemon = NewDaemon
    /\ prov = [o1 |-> NoLoad, o2 |-> NoLoad, o3 |-> NoLoad, ou |-> NoLoad]
    /\ device = NoDevice
    /\ decoder = NewDecoder(args.loop_audio, ClampVolume(args.volume))
    /\ handler = "none"
    /\ running = TRUE
    /\ quit = FALSE
    /\ rt = "idle"
    /\ fills = 0
    /\ last = NoFill
    /\ eosSeen = FALSE
    /\ delivered = <<>>
    /\ decodedAll = <<>>
    /\ exit = NotExited

\* A return from main that leaves without running Drop.
ReturnFromMain_without_drop(code, reason, u) ==
    /\ pc' = "exited"
    /\ daemon' = daemon
    /\ exit' = [code |-> code, reason |-> reason, dropped |-> 0]

\* main returns Err(_) or Ok(()): virtual_device, if main owns one, is dropped
\* on the way out; u are the outcomes of the unloads of Drop.
ReturnFromMain(code, reason, u) ==
    /\ pc' = "exited"
    /\ daemon' = IF device.exists THEN drop(device, daemon, u) ELSE daemon
    /\ exit' = [code |-> code, reason |-> reason,
                dropped |-> IF device.exists THEN 1 ELSE 0]

\* std::process::exit / death by signal: no destructor runs.
ExitProcess(code, reason) ==
    /\ pc' = "exited"
    /\ exit' = [code |-> code, reason |-> reason, dropped |-> 0]
    /\ UNCHANGED daemon

NoUnloads == <<"ok", "ok", "ok">>

\* if !args.file.exists() { return Err(..) } (main.rs 386-388)
CheckFile ==
    /\ pc = "check_file"
    /\ IF args.file_exists
       THEN pc' = "provision" /\ UNCHANGED <<daemon, exit>>
       ELSE ReturnFromMain(1, "file_missing", NoUnloads)
    /\ UNCHANGED <<args, file, step, prov, device, decoder, handler, running,
                   quit, rt, fills, last, eosSeen, delivered, decodedAll>>

\* let virtual_device = VirtualDevice::new(&args.name, args.monitor)?;
\* (main.rs 391)
Provision ==
    /\ pc = "provision"
    /\ \E o1 \in LoadOutcomes, o2 \in LoadOutcomes \cup {NoLoad},
          o3 \in LoadOutcomes \cup {NoLoad}, ou \in UnloadOutcomes \cup {NoLoad} :
         /\ (o2 = NoLoad) <=> ~Reaches2(o1)
         /\ (o3 = NoLoad) <=> ~Reaches3(args.monitor, o1, o2)
         /\ (ou = NoLoad) <=> ~ReachesRollback(o1, o2)
         /\ LET r == VirtualDevice_new(daemon, args.monitor, o1, o2, o3, ou)
            IN /\ prov' = [o1 |-> o1, o2 |-> o2, o3 |-> o3, ou |-> ou]
               /\ daemon' = r.dm
               /\ device' = r.dev
               /\ IF r.ok
                  THEN pc' = "startup" /\ UNCHANGED exit
                  ELSE /\ pc' = "exited"
                       /\ exit' = [code |-> 1, reason |-> "provision_failed",
                                   dropped |-> 0]
    /\ UNCHANGED <<args, file, step, decoder, handler, running, quit, rt, fills,
                   last, eosSeen, delivered, decodedAll>>

\* One step of StartupSteps succeeds or fails; a failure returns the error
\* from main.  decoder.borrow_mut().open()? opens the decoder (main.rs 407).
StartupStep ==
    /\ pc = "startup"
    /\ \E ok \in BOOLEAN, u \in [1..3 -> UnloadOutcomes] :
         IF ok
         THEN /\ u = [i \in 1..3 |-> "ok"]
              /\ decoder' = IF StartupSteps[step] = "decoder_open"
                            THEN open(decoder, file) ELSE decoder
              /\ IF step < Len(StartupSteps)
                 THEN step' = step + 1 /\ pc' = "startup"
                 ELSE step' = step /\ pc' = "set_handler"
              /\ UNCHANGED <<daemon, exit>>
         ELSE /\ ReturnFromMain(1, "startup_failed", u)
              /\ UNCHANGED <<step, decoder>>
    /\ UNCHANGED <<args, file, prov, device, handler, running, quit, rt, fills,
                   last, eosSeen, delivered, decodedAll>>

\* ctrlc::set_handler(..).ok(): a failed registration is ignored; then the
\* timer is armed and mainloop.run() entered (main.rs 528-551).
SetHandler ==
    /\ pc = "set_handler"
    /\ \E ok \in BOOLEAN : handler' = IF ok THEN "installed" ELSE "failed"
    /\ pc' = "mainloop"
    /\ UNCHANGED <<args, file, step, daemon, prov, device, decoder, running,
                   quit, rt, fills, last, eosSeen, delivered, decodedAll, exit>>

\* SIGINT.  With the handler installed it stores false into `running`
\* (main.rs 530-533); without it the default action ends the process.
Sigint ==
    /\ pc # "exited"
    /\ IF handler = "installed"
       THEN running' = FALSE /\ UNCHANGED <<pc, daemon, exit>>
       ELSE ExitProcess(130, "killed") /\ UNCHANGED running
    /\ UNCHANGED <<args, file, step, prov, device, decoder, handler, quit, rt,
                   fills, last, eosSeen, delivered, decodedAll>>

\* The timer callback with the test of the flag inverted.
TimerTick_inverted ==
    /\ pc = "mainloop"
    /\ IF running
       THEN ExitProcess(0, "cancel")
       ELSE UNCHANGED <<pc, daemon, exit>>
    /\ UNCHANGED <<args, file, step, prov, device, decoder, handler, running,
                   quit, rt, fills, last, eosSeen, delivered, decodedAll>>

\* The timer callback, every 100 ms while the main loop runs
\* (main.rs 539-549): std::process::exit(0) once `running` is false.
TimerTick ==
    /\ pc = "mainloop"
    /\ IF ~running
       THEN ExitProcess(0, "cancel")
       ELSE UNCHANGED <<pc, daemon, exit>>
    /\ UNCHANGED <<args, file, step, prov, device, decoder, handler, running,
                   quit, rt, fills, last, eosSeen, delivered, decodedAll>>

\* mainloop.run() returns after ml.quit(); main returns Ok(()) (main.rs 551-554).
MainLoopReturn ==
    /\ pc = "mainloop"
    /\ quit
    /\ \E u \in [1..3 -> UnloadOutcomes] : ReturnFromMain(0, "quit", u)
    /\ UNCHANGED <<args, file, step, prov, device, decoder, handler, running,
                   quit, rt, fills, last, eosSeen, delivered, decodedAll>>

\* What the daemon hands to one process callback (main.rs 473-478):
\*   "no_buffer"  dequeue_buffer() is None;  "no_datas"  datas is empty;
\*   "no_slice"   data.data() is None;       "slice"     a slice of n samples.
CallbackKinds == {"no_buffer", "no_datas", "no_slice", "slice"}

\* The chunk the callback publishes for Some(filled) (main.rs 504-509).
ChunkSize(filled) == filled * SizeOfF32

\* The record of a callback that called fill_buffer with result r.
FillRecord(r, n) ==
    [res |-> r.res, n |-> n, ret |-> r.ret, out |-> r.out, pad |-> r.pad,
     eos |-> r.eos, decoded |-> r.decoded, before |-> decoder.buffer,
     chunk_size |-> IF r.res = "ok" THEN ChunkSize(r.ret) ELSE None,
     published |-> r.res = "ok", eos_before |-> eosSeen,
     cancelled |-> ~running, cause |-> r.cause, clean |-> r.clean]

\* The process callback on the realtime thread (main.rs 472-512).  Ok(filled)
\* publishes the chunk; Err(_) calls ml.quit() and publishes nothing; a
\* fill_buffer that does not return keeps the realtime thread.
ProcessCallback ==
    /\ pc = "mainloop"
    /\ rt = "idle"
    /\ fills < MaxFills
    /\ \E kind \in CallbackKinds, n \in 0..MaxN, reopen_ok \in BOOLEAN :
         IF kind # "slice"
         THEN /\ n = 0 /\ reopen_ok
              /\ UNCHANGED <<decoder, quit, rt, fills, last, eosSeen, delivered, decodedAll>>
         ELSE LET r == fill_buffer(decoder, file, n, reopen_ok)
              IN /\ decoder' = r.dec
                 /\ quit' = (quit \/ r.res = "err")
                 /\ rt' = IF r.res = "hang" THEN "hung" ELSE "idle"
                 /\ fills' = fills + 1
                 /\ last' = FillRecord(r, n)
                 /\ eosSeen' = (eosSeen \/ r.eos)
                 /\ delivered' = delivered \o Take(r.out, Len(r.out) - r.pad)
                 /\ decodedAll' = decodedAll \o r.decoded
    /\ UNCHANGED <<args, file, pc, step, daemon, prov, device, handler, running,
                   exit>>

Next ==
    \/ CheckFile
    \/ Provision
    \/ StartupStep
    \/ SetHandler
    \/ Sigint
    \/ TimerTick
    \/ MainLoopReturn
    \/ ProcessCallback

Spec == Init /\ [][Next]_vars

\* The main thread runs, the timer of the main loop keeps firing and
\* mainloop.run() returns once quit was called.  Signals and process
\* callbacks are up to the environment.
FairSpec ==
    /\ Spec
    /\ WF_vars(CheckFile) /\ WF_vars(Provision) /\ WF_vars(StartupStep)
    /\ WF_vars(SetHandler) /\ WF_vars(TimerTick) /\ WF_vars(MainLoopReturn)

TypeOK ==
    /\ pc \in {"check_file", "provision", "startup", "set_handler", "mainloop",
               "exited"}
    /\ step \in 1..Len(StartupSteps)
    /\ handler \in {"none", "installed", "failed"}
    /\ running \in BOOLEAN /\ quit \in BOOLEAN
    /\ rt \in {"idle", "hung"}
    /\ fills \in 0..MaxFills

\* ---------------------------------------------------- decode_more on a block
\* One decode_more call on an opened decoder whose file holds one audio
\* packet: the block is drawn from every sample sequence of up to MaxBlock
\* frames, for a range of channel counts, source rates and --volume values
\* (in units of 1/VolumeDen; NaN, negative and above 2.0 included).  The
\* sample values are multiples of 5760, so that every mean, every product
\* with a volume and every interpolation below is an integer.
SampleValues == {0 - 5760, 11520}
BlockChannels == {1, 2, 3}
BlockRates == {24000, 32000, 44100, SAMPLE_RATE, 96000}
BlockVolumes == {NaN, 0 - 2, 1, 2, 6}

Blocks(source_channels) ==
    UNION {[1..(source_channels * frames) -> SampleValues] :
             frames \in 0..MaxBlock}

DecodeInit ==
    /\ \E v \in BlockVolumes :
         args = [file_exists |-> TRUE, loop_audio |-> FALSE, volume |-> v,
                 monitor |-> FALSE]
    /\ \E c \in BlockChannels, r \in BlockRates :
         \E s \in Blocks(c) :
             file = [rate |-> r, channels |-> c, packets |-> <<Audio(s)>>]
    /\ pc = "decode"
    /\ step = 1
    /\ daemon = NewDaemon
    /\ prov = [o1 |-> NoLoad, o2 |-> NoLoad, o3 |-> NoLoad, ou |-> NoLoad]
    /\ device = NoDevice
    /\ decoder = open(NewDecoder(args.loop_audio, ClampVolume(args.volume)),
                      file)
    /\ handler = "none"
    /\ running = TRUE
    /\ quit = FALSE
    /\ rt = "idle"
    /\ fills = 0
    /\ last = NoFill
    /\ eosSeen = FALSE
    /\ delivered = <<>>
    /\ decodedAll = <<>>
    /\ exit = NotExited

\* self.decode_more() (main.rs 119-202) on the block.
DecodeBlock ==
    /\ pc = "decode"
    /\ LET r == decode_more(decoder, file, TRUE)
       IN /\ decoder' = r.dec
          /\ decodedAll' = r.dec.buffer
          /\ pc' = "decoded"
    /\ UNCHANGED <<args, file, step, daemon, prov, device, handler, running,
                   quit, rt, fills, last, eosSeen, delivered, exit>>

DecodeNext == DecodeBlock

DecodeSpec == DecodeInit /\ [][DecodeNext]_vars

\* ------------------------------------------------------------- properties
\* The samples one pass over the file puts into the buffer, up to the first
\* reader error: every audio packet of the selected track, downmixed, scaled
\* and resampled on its own.
RECURSIVE PassSamples(_, _, _)
PassSamples(f, volume, i) ==
    IF i > Len(f.packets) \/ f.packets[i].kind = "ioerr" THEN <<>>
    ELSE (IF f.packets[i].kind = "audio"
          THEN LET mono == Downmix(f.packets[i].samples, f.channels, volume)
               IN IF f.rate # SAMPLE_RATE THEN Resample(mono, f.rate) ELSE mono
          ELSE <<>>)
         \o PassSamples(f, volume, i + 1)

Pass == PassSamples(file, decoder.volume, 1)

RECURSIVE Cycle(_, _)
Cycle(s, k) == IF k <= 0 THEN <<>> ELSE s \o Cycle(s, k - 1)

IsPrefix(s, t) == Len(s) <= Len(t) /\ s = SubSeq(t, 1, Len(s))

\* C1: a fill_buffer call that returns Ok returns exactly the requested
\* count, and every slot of the output has been written, with a buffered
\* sample or with a zero; also in the calls made after end-of-stream.
C1_FillReturnsN ==
    last.res = "ok" =>
        /\ last.ret = last.n
        /\ Len(last.out) = last.n
        /\ last.chunk_size = last.n * SizeOfF32

\* The first fill after end-of-stream was reported, on a non-empty output.
C1_Witness ==
    /\ last.res = "ok" /\ last.eos_before /\ last.n > 0 /\ fills = 2

\* C7: without looping, the fill call that exhausts the file outputs what was
\* buffered and decoded, then zeros, and returns N; every later call returns
\* N zeros, without error.
C7_EndOfStreamIsSilence ==
    ~args.loop_audio =>
        /\ last.eos =>
              /\ last.res = "ok" /\ last.ret = last.n
              /\ last.out = last.before \o last.decoded \o Repeat(0, last.pad)
              /\ Len(last.out) = last.n
              /\ decoder.buffer = <<>>
              /\ delivered = Pass
        /\ last.eos_before =>
              /\ last.res = "ok" /\ last.ret = last.n
              /\ last.out = Repeat(0, last.n)
              /\ last.pad = last.n

\* The exhausting call: buffered samples first, then padding.
C7_Witness ==
    /\ ~args.loop_audio /\ last.eos /\ ~last.eos_before
    /\ last.before # <<>> /\ last.pad > 0 /\ last.pad < last.n

\* C8: with looping, end-of-file re-opens the file and reports "more data";
\* no fill ever pads with silence, and the samples delivered are the file's
\* samples, pass after pass, each pass from the beginning.
C8_LoopingNeverEnds ==
    args.loop_audio =>
        /\ ~eosSeen /\ ~last.eos /\ last.pad = 0
        /\ IsPrefix(delivered, Cycle(Pass, MaxFills * MaxN + 1))
        /\ (decoder.opened /\ decoder.pos > Len(file.packets)) =>
              LET r == decode_more(decoder, file, TRUE)
              IN r.res = "more" /\ r.reopened /\ r.dec.pos = 1

\* Output that continues into a second pass over the file.
C8_Witness ==
    /\ args.loop_audio /\ Pass # <<>> /\ Len(delivered) > Len(Pass)
    /\ last.res = "ok"

\* The ids of the unload commands in the log, in order.
RECURSIVE UnloadIds(_)
UnloadIds(log) ==
    IF log = <<>> THEN <<>>
    ELSE (IF Head(log).op = "unload" THEN <<Head(log).id>> ELSE <<>>)
         \o UnloadIds(Tail(log))

\* What the id was loaded as, by the log's load commands.
KindOf(log, id) ==
    LET i == CHOOSE j \in 1..Len(log) : log[j].op = "load" /\ log[j].id = id
    IN log[i].kind

IsPresent(id) == id # None

\* The ids a device holds, in the order Drop unloads them.
HeldIds(dev) ==
    SelectSeq(<<dev.loopback_module_id, dev.remap_module_id, dev.module_id>>,
              IsPresent)

Range(seq) == {seq[i] : i \in 1..Len(seq)}

NoDuplicates(seq) == \A i, j \in 1..Len(seq) : i # j => seq[i] # seq[j]

\* C2: when the process exits because the timer saw the flag the signal
\* handler set, unload commands for every module id the device holds have
\* been issued.
C2_SignalShutdownReleases ==
    (pc = "exited" /\ exit.reason = "cancel") =>
        /\ UnloadIds(daemon.log) = HeldIds(device)
        /\ exit.dropped = 1

\* C3: when the remap-source step fails after the sink was created,
\* VirtualDevice::new returns an error, has issued an unload of the sink
\* module, and (the unload succeeding) leaves no module loaded.
C3_ProvisionAtomic ==
    (prov.o1 = "ok" /\ prov.o2 \in {"exit_fail", "spawn_fail"}) =>
        /\ pc = "exited" /\ exit.reason = "provision_failed" /\ ~device.exists
        /\ UnloadIds(daemon.log) = <<daemon.log[1].id>>
        /\ prov.ou = "ok" => daemon.loaded = {}

\* C4: Drop issues one unload for each id the device holds and no other, in
\* the order loopback, remap source, sink, whatever the outcome of each
\* unload; Drop runs at most once; and over the rollback of
\* VirtualDevice::new and Drop no id is unloaded twice.
C4_TeardownOrder ==
    LET ids == UnloadIds(daemon.log)
    IN /\ exit.dropped \in {0, 1}
       /\ NoDuplicates(ids)
       /\ exit.dropped = 1 =>
             /\ ids = HeldIds(device)
             /\ \A i, j \in 1..Len(ids) : i < j => ids[i] > ids[j]
             /\ \A i \in 1..Len(ids) :
                   KindOf(daemon.log, ids[i]) =
                       IF ids[i] = device.loopback_module_id THEN "loopback"
                       ELSE IF ids[i] = device.remap_module_id THEN "remap"
                       ELSE "sink"
       /\ exit.dropped = 0 =>
             ids = IF prov.ou # NoLoad THEN <<daemon.log[1].id>> ELSE <<>>

\* Drop of a device with all three modules, the first unload failing.
C4_Witness ==
    /\ exit.dropped = 1 /\ device.loopback_module_id # None
    /\ Len(UnloadIds(daemon.log)) = 3
    /\ \E i \in 1..Len(daemon.log) :
          /\ daemon.log[i].op = "unload" /\ daemon.log[i].outcome = "exit_fail"
          /\ daemon.log[i].id = device.loopback_module_id
    /\ device.module_id \notin daemon.loaded

\* C5: with monitor mode, when the loopback step fails after sink and remap
\* source were created, VirtualDevice::new returns a device with both ids and
\* no loopback id, and has unloaded nothing.
C5_LoopbackFailureNonFatal ==
    (prov.o1 = "ok" /\ prov.o2 = "ok" /\ prov.o3 \in {"exit_fail", "spawn_fail"}) =>
        /\ device.exists
        /\ device.module_id # None /\ device.remap_module_id # None
        /\ device.loopback_module_id = None
        /\ exit.reason # "provision_failed"
        /\ pc # "exited" => UnloadIds(daemon.log) = <<>>

\* C6: a missing audio file exits non-zero with no load command issued; a
\* failure of a startup step after VirtualDevice::new succeeded exits
\* non-zero after Drop has issued the unloads of every id the device holds
\* (so that, the unloads succeeding, none of them stays loaded).
C6_StartupFailureReleases ==
    /\ exit.reason = "file_missing" =>
          pc = "exited" /\ exit.code # 0 /\ daemon.log = <<>>
    /\ exit.reason = "startup_failed" =>
          /\ pc = "exited" /\ exit.code # 0 /\ exit.dropped = 1
          /\ UnloadIds(daemon.log) = HeldIds(device)
          /\ (\A i \in 1..Len(daemon.log) : daemon.log[i].op = "unload"
                    => daemon.log[i].outcome = "ok")
                => Range(HeldIds(device)) \cap daemon.loaded = {}

\* stream.connect fails with sink, remap source and loopback loaded.
C6_Witness ==
    /\ exit.reason = "startup_failed" /\ StartupSteps[step] = "stream_connect"
    /\ device.loopback_module_id # None /\ daemon.loaded = {}

\* C9: a fill_buffer error publishes no chunk and asks the main loop to quit,
\* and a process in which that happened ends (other than by the default
\* action of a signal) only after Drop has run.
C9_FillFailureCleansUp ==
    /\ last.res = "err" => ~last.published /\ (quit \/ pc = "exited")
    /\ (pc = "exited" /\ last.res = "err" /\ exit.reason # "killed") =>
          /\ exit.dropped = 1
          /\ UnloadIds(daemon.log) = HeldIds(device)

\* C10: the process exits on account of cancellation only with the flag set,
\* and once the flag is set the process exits.
C10_CooperativeCancellation ==
    /\ [](exit.reason = "cancel" => ~running)
    /\ (~running ~> pc = "exited")

\* A process callback that ran fill_buffer after the flag was set and before
\* the timer polled it.
C10_Witness ==
    /\ pc = "mainloop" /\ ~running /\ last.cancelled /\ last.res = "ok"

\* The load commands of the log, by kind.
LoadsOf(log, kind) ==
    {i \in 1..Len(log) : log[i].op = "load" /\ log[i].kind = kind}

\* C11: in every VirtualDevice that exists the sink id and the remap source
\* id are both present or both absent; a loopback id is present only with
\* monitor mode, and without monitor mode no loopback load command is run.
C11_DeviceInvariant ==
    /\ device.exists =>
          /\ (device.module_id # None) <=> (device.remap_module_id # None)
          /\ device.loopback_module_id # None => args.monitor
          /\ device.loopback_module_id # None =>
                device.loopback_module_id \notin
                    {device.module_id, device.remap_module_id}
    /\ ~args.monitor => LoadsOf(daemon.log, "loopback") = {}

\* A device without monitor mode, from VirtualDevice::new to after its Drop.
C11_Witness ==
    /\ device.exists /\ ~args.monitor /\ pc = "exited" /\ exit.dropped = 1
    /\ device.module_id # None

\* C13: when step 1 of VirtualDevice::new fails, the call returns an error,
\* no unload command and no further load command is run, and no device
\* exists (so Drop never runs); after a sink command that did not exit
\* successfully no module is loaded.
C13_SinkFailureNoRollback ==
    (prov.o1 \notin {"ok", NoLoad}) =>
        /\ pc = "exited" /\ exit.reason = "provision_failed" /\ exit.code # 0
        /\ ~device.exists /\ exit.dropped = 0
        /\ Len(daemon.log) = 1 /\ daemon.log[1].op = "load"
        /\ daemon.log[1].kind = "sink"
        /\ UnloadIds(daemon.log) = <<>>
        /\ prov.o1 \in {"exit_fail", "spawn_fail"} => daemon.loaded = {}

\* The sink command exits with a failure status.
C13_Witness ==
    /\ prov.o1 = "exit_fail" /\ pc = "exited" /\ args.monitor

\* C17: whenever a module is loaded and the process runs, the Ctrl+C handler
\* is installed, so that no interrupt ends the process by the signal's
\* default action (without teardown) while modules are loaded.
C17_HandlerCoversModules ==
    /\ (daemon.loaded # {} /\ pc # "exited") => handler = "installed"
    /\ exit.reason = "killed" => daemon.loaded = {}

\* C19: every fill_buffer call returns, with Ok or with Err, after finitely
\* many decode_more and open calls.
C19_FillTerminates ==
    /\ last.res # "hang"
    /\ rt = "idle"

\* The first packet at or after position p that is neither of another track
\* nor undecodable; Len + 1 when the packets run out first.
RECURSIVE NextReal(_, _)
NextReal(f, p) ==
    IF p > Len(f.packets) \/ f.packets[p].kind \notin {"other", "corrupt"}
    THEN p
    ELSE NextReal(f, p + 1)

\* What a decode_more call on the opened decoder d does, told from the first
\* packet it cannot skip: the skipped packets leave the buffer alone and
\* raise no error.
Absorbs(d, ok) ==
    LET q == NextReal(file, d.pos)
        r == decode_more(d, file, ok)
    IN IF q > Len(file.packets)
       THEN /\ r.dec.buffer = d.buffer
            /\ r.res = IF ~d.loop_audio THEN "eos"
                       ELSE IF ok THEN "more" ELSE "err"
            /\ r.res = "more" => r.reopened /\ r.dec.pos = 1
       ELSE IF file.packets[q].kind = "ioerr"
       THEN r.res = "err" /\ r.cause = "reader" /\ r.dec.buffer = d.buffer
       ELSE /\ r.res = "more" /\ ~r.reopened
            /\ r.dec.pos = q + 1
            /\ r.dec.buffer =
                 AppendBlock(d, file.packets[q].samples, file.channels)

\* C14 as stated: skipped packets append nothing and raise no error, and
\* a fill error is always the reader error of the packet the decoder
\* stands at.
C14_OnlyReaderErrorSurfaces ==
    /\ decoder.opened => \A ok \in BOOLEAN : Absorbs(decoder, ok)
    /\ last.res = "err" =>
         /\ last.cause = "reader"
         /\ decoder.pos <= Len(file.packets)
         /\ file.packets[decoder.pos].kind = "ioerr"

\* C14 (amended): skipped packets append nothing and raise no error; a call
\* ends without a decoded block only at the end of the stream or at a
\* reader error, and a fill error is either that reader error or the failed
\* re-open of a loop restart at the end of the stream.
C14_PacketFailuresAbsorbed ==
    /\ decoder.opened => \A ok \in BOOLEAN : Absorbs(decoder, ok)
    /\ last.res = "err" =>
         \/ /\ last.cause = "reader"
            /\ decoder.pos <= Len(file.packets)
            /\ file.packets[decoder.pos].kind = "ioerr"
         \/ /\ last.cause = "reopen"
            /\ decoder.loop_audio
            /\ decoder.pos > Len(file.packets)

\* The packets of another track and the undecodable packet were skipped, the
\* audio after them was delivered, and the loop restart failed to re-open.
C14_Witness ==
    /\ file = Noisy /\ delivered # <<>>
    /\ last.res = "err" /\ last.cause = "reopen"

\* C15: the buffer is a FIFO without loss or duplication: the non-padding
\* output of all fill calls, followed by what is still buffered, is exactly
\* the sequence of samples decode_more appended, in the same order; padding
\* zeros are written only once the buffer is empty, after the samples of the
\* same call.
C15_BufferIsFifo ==
    /\ delivered \o decoder.buffer = decodedAll
    /\ last.pad > 0 =>
         /\ decoder.buffer = <<>>
         /\ last.res = "ok" /\ Len(last.out) = last.n
         /\ \A k \in (last.n - last.pad + 1)..last.n : last.out[k] = 0
         /\ IsPrefix(Take(last.out, last.n - last.pad), last.before \o last.decoded)
    /\ (last.res = "ok" /\ last.pad = 0) =>
         IsPrefix(last.out, last.before \o last.decoded)

\* A second successful call continued in a block that the call before it
\* had drained only in part, and left part of a block buffered.
C15_Witness ==
    /\ fills >= 2 /\ last.res = "ok" /\ last.n > 0
    /\ last.before # <<>> /\ decoder.buffer # <<>>
    /\ Len(delivered) > last.n

\* C20: driven through fill_buffer, decode_more is only ever invoked on an
\* empty buffer, so the resampling step sees the block of its own call alone:
\* what has been decoded is the concatenation of the blocks, each resampled
\* once on its own, pass after pass.
C20_NoDoubleResampling ==
    /\ last.clean
    /\ \E k \in 0..Len(decodedAll) :
         /\ IsPrefix(Cycle(Pass, k), decodedAll)
         /\ IsPrefix(SubSeq(decodedAll, Len(Cycle(Pass, k)) + 1, Len(decodedAll)),
                     Pass)

\* A call on a file that needs resampling decoded a second block while the
\* samples of the first one had already been converted and handed out.
C20_Witness ==
    /\ file.rate # SAMPLE_RATE /\ last.res = "ok"
    /\ last.before # <<>> /\ last.decoded # <<>>
    /\ Len(decodedAll) > Len(last.decoded)

Block == file.packets[1].samples
Mixed == Downmix(Block, file.channels, decoder.volume)

\* Frame k (1-based) of the block.
Frame(k) == SubSeq(Block, (k - 1) * file.channels + 1, k * file.channels)

\* One mono sample per frame, in frame order, each the mean of the frame's
\* channel samples times the volume.
DownmixIsMean ==
    (pc = "decoded" /\ file.rate = SAMPLE_RATE) =>
        /\ Len(decoder.buffer) * file.channels = Len(Block)
        /\ \A k \in 1..Len(decoder.buffer) :
             /\ decoder.buffer[k] # NaN
             /\ decoder.buffer[k] * file.channels * VolumeDen
                  = SumSeq(Frame(k)) * decoder.volume

\* C12: decode_more appends one mono sample per frame, in frame order, equal
\* to the mean of the frame's channel samples times the volume, and the
\* volume the decoder uses lies within [0, 2].
C12_DownmixAndVolume ==
    /\ DownmixIsMean
    /\ pc = "decoded" =>
         (decoder.volume # NaN /\ decoder.volume \in 0..VolumeMax)

\* C18: with a source rate other than the target rate, the L buffered samples
\* become exactly floor(L * ratio) samples, ratio = SAMPLE_RATE / source rate;
\* output i interpolates, with weight frac(i / ratio), between the samples at
\* floor(i / ratio) and min(floor(i / ratio) + 1, L - 1), both within
\* [0, L - 1]; an output of numbers lies between its two neighbours, and a
\* constant input gives the same constant.  With equal rates the buffer is
\* left as the downmix made it.
C18_ResampleIndexMapping ==
    pc = "decoded" =>
        LET L == Len(Mixed)
            out == decoder.buffer
        IN IF file.rate = SAMPLE_RATE THEN out = Mixed
           ELSE /\ Len(out) * file.rate <= L * SAMPLE_RATE
                /\ (Len(out) + 1) * file.rate > L * SAMPLE_RATE
                /\ \A i \in 0..(Len(out) - 1) :
                     LET idx0 == (i * file.rate) \div SAMPLE_RATE
                         idx1 == Min(idx0 + 1, L - 1)
                         fracNum == (i * file.rate) % SAMPLE_RATE
                         a == Mixed[idx0 + 1]
                         b == Mixed[idx1 + 1]
                     IN /\ idx0 \in 0..(L - 1) /\ idx1 \in 0..(L - 1)
                        /\ decoder.volume # NaN =>
                             /\ out[i + 1] * SAMPLE_RATE
                                  = a * (SAMPLE_RATE - fracNum) + b * fracNum
                             /\ \/ a <= out[i + 1] /\ out[i + 1] <= b
                                \/ b <= out[i + 1] /\ out[i + 1] <= a
                /\ (L > 0 /\ \A k \in 1..L : Mixed[k] = Mixed[1]) =>
                     (\A k \in 1..Len(out) : out[k] = Mixed[1])

\* A block of three unequal frames is brought from 24 kHz up to 48 kHz: six
\* samples come out, and the last one falls behind the last input sample, so
\* its second neighbour index is clamped to L - 1.
C18_Witness ==
    /\ pc = "decoded" /\ file.rate = 24000 /\ file.channels = 1
    /\ decoder.volume = VolumeDen
    /\ Len(Mixed) = 3 /\ Mixed[1] # Mixed[2] /\ Mixed[2] # Mixed[3]
    /\ Len(decoder.buffer) = 6
    /\ decoder.buffer[6] = Mixed[3] /\ decoder.buffer[2] # Mixed[1]

\* The load commands of the log that exited successfully.
LoadedBy(log) ==
    {i \in 1..Len(log) : log[i].op = "load"
                           /\ log[i].outcome \in {"ok", "ok_noparse"}}

\* C21: no loaded module is leaked: when the process has exited by returning
\* from main (after a failed start, a failed provisioning or the end of the
\* main loop), every module whose load command exited successfully has had
\* an unload command issued for it afterwards, also when the printed id
\* did not parse and when a later command could not be spawned.
C21_NoModuleLeaked ==
    (pc = "exited" /\ exit.reason \notin {"killed", "cancel"}) =>
        \A i \in LoadedBy(daemon.log) :
            \E j \in (i + 1)..Len(daemon.log) :
                /\ daemon.log[j].op = "unload"
                /\ daemon.log[j].id = daemon.log[i].id

====
